---- MODULE Spec2Model ----
(***************************************************************************)
(* A model of ising_exam_scheduler.py: the Ising energy of a two-slot exam *)
(* assignment, the simulated-annealing loop that searches for a low-energy *)
(* assignment, and the reporting code that decodes and scores its result.  *)
(*                                                                         *)
(* Conventions.                                                            *)
(*  - Python indexes from 0, the model from 1: item i of the source is     *)
(*    position i+1 of a sequence here.                                     *)
(*  - A temperature is an integer number of 1/Scale units (fixed point).   *)
(*    cool_rate is the fraction <<numerator, denominator>>.  For the       *)
(*    parameter sets below the cooled values stay far away from T_min at   *)
(*    every step, so the comparisons T < T_min come out as they do on      *)
(*    IEEE doubles (8.0 * 0.9^41 = 0.1064, 8.0 * 0.9^42 = 0.0958).         *)
(*    A product below one unit is 0, as a product below the smallest       *)
(*    positive double is 0.0 in the code: with cool_rate = 0.5 the code's  *)
(*    T is 0.0 after 1075 coolings of 1.0, the model's after 20.           *)
(*  - np.random.randint and np.random.rand are nondeterministic choices.   *)
(***************************************************************************)
EXTENDS Integers, Sequences, FiniteSets, TLC

VARIABLES
    J,               \* interaction matrix passed to simulate_annealing
    subjects,        \* item names, in item order
    spins,           \* the caller's array; simulate_annealing works on it in place
    spins_at_call,   \* the contents of that array when simulate_annealing was called
    T0, T_min, cool_rate, max_iter,   \* the annealing parameters of the call
    T,               \* current temperature
    it,              \* number of loop iterations started so far
    best_spins, best_energy, energy_history,
    pc,              \* "loop" | "returned" | "reported"
    schedule,        \* result of get_schedule (<<>> until computed)
    conflict_count   \* result of count_conflicts (-1 until computed)

vars == <<J, subjects, spins, spins_at_call, T0, T_min, cool_rate, max_iter, T, it,
          best_spins, best_energy, energy_history, pc, schedule, conflict_count>>

params == <<J, subjects, spins_at_call, T0, T_min, cool_rate, max_iter>>

(***************************************************************************)
(* Bounds of the model.                                                    *)
(***************************************************************************)
\* largest max_iter of the exhaustively explored calls
MaxIter == 3
\* largest item count of the exhaustively enumerated weight matrices
MaxN == 3
\* number of leading iterations of a seeded run whose index draw is unconstrained
FreeDraws == 2
\* max_iter of the long seeded runs
LongRun == 24

Scale == 10 ^ 6

(***************************************************************************)
(* Section 1 of the source: the configured problem and parameters.         *)
(***************************************************************************)
program_subjects == <<"yuwen", "shuxue", "yingyu", "wuli", "huaxue">>

conflict_matrix ==
    << <<0, 0, 0, 0, 0>>,
       <<0, 0, 0, 1, 1>>,
       <<0, 0, 0, 1, 0>>,
       <<0, 1, 1, 0, 0>>,
       <<0, 1, 0, 0, 0>> >>

\* J = -conflict_matrix (numpy negates element-wise)
Negated(m) == [i \in 1..Len(m) |-> [j \in 1..Len(m[i]) |-> 0 - m[i][j]]]

\* T0 = 8.0, T_min = 0.1, cool_rate = 0.9
ProgramParams == [T0 |-> 8 * Scale, T_min |-> Scale \div 10, cool_rate |-> <<9, 10>>]
Program_max_iter == 500

\* np.random.choice([-1, 1], size=n)
SpinStates(n) == [1..n -> {-1, 1}]

(***************************************************************************)
(* Section 2 of the source: the core functions.                            *)
(***************************************************************************)
\* the inner loop of calculate_energy: for j in range(i+1, len(spins))
RECURSIVE energy_row(_, _, _, _)
energy_row(sp, Jm, i, j) ==
    IF j > Len(sp) THEN 0
    ELSE (0 - Jm[i][j]) * sp[i] * sp[j] + energy_row(sp, Jm, i, j + 1)

\* the outer loop of calculate_energy: for i in range(len(spins))
RECURSIVE energy_rows(_, _, _)
energy_rows(sp, Jm, i) ==
    IF i > Len(sp) THEN 0
    ELSE energy_row(sp, Jm, i, i + 1) + energy_rows(sp, Jm, i + 1)

\* variant: the inner loop runs over every j (range(len(spins))), so each
\* unordered pair is visited twice and the diagonal once
RECURSIVE energy_rows_all_pairs(_, _, _)
energy_rows_all_pairs(sp, Jm, i) ==
    IF i > Len(sp) THEN 0
    ELSE energy_row(sp, Jm, i, 1) + energy_rows_all_pairs(sp, Jm, i + 1)

calculate_energy_all_pairs(sp, Jm) == energy_rows_all_pairs(sp, Jm, 1)

\* variant: the term is -J[i][j] * spins[i], the factor spins[j] is missing
RECURSIVE energy_row_one_spin(_, _, _, _)
energy_row_one_spin(sp, Jm, i, j) ==
    IF j > Len(sp) THEN 0
    ELSE (0 - Jm[i][j]) * sp[i] + energy_row_one_spin(sp, Jm, i, j + 1)

RECURSIVE energy_rows_one_spin(_, _, _)
energy_rows_one_spin(sp, Jm, i) ==
    IF i > Len(sp) THEN 0
    ELSE energy_row_one_spin(sp, Jm, i, i + 1) + energy_rows_one_spin(sp, Jm, i + 1)

calculate_energy_one_spin(sp, Jm) == energy_rows_one_spin(sp, Jm, 1)

\* variant: the inner loop is range(i+1, len(spins)-1), so the pairs with the
\* last item are never visited
RECURSIVE energy_row_skip_last(_, _, _, _)
energy_row_skip_last(sp, Jm, i, j) ==
    IF j > Len(sp) - 1 THEN 0
    ELSE (0 - Jm[i][j]) * sp[i] * sp[j] + energy_row_skip_last(sp, Jm, i, j + 1)

RECURSIVE energy_rows_skip_last(_, _, _)
energy_rows_skip_last(sp, Jm, i) ==
    IF i > Len(sp) THEN 0
    ELSE energy_row_skip_last(sp, Jm, i, i + 1) + energy_rows_skip_last(sp, Jm, i + 1)

calculate_energy_skip_last(sp, Jm) == energy_rows_skip_last(sp, Jm, 1)

calculate_energy(sp, Jm) == energy_rows(sp, Jm, 1)

\* variant: spins[idx] = -1
Flip_to_minus(sp, idx) == [sp EXCEPT ![idx] = 0 - 1]

\* spins[idx] *= -1
Flip(sp, idx) == [sp EXCEPT ![idx] = @ * (0 - 1)]

\* variant: T /= cool_rate
Cooled_divided(t, rate) == (t * rate[2]) \div rate[1]

\* T *= cool_rate
Cooled(t, rate) == (t * rate[1]) \div rate[2]

\* np.random.rand() < np.exp(-delta_E / T), reached with delta_E >= 0.
\* rand() is any double in [0, 1).  With numpy operands the division by T = 0
\* yields nan (delta_E = 0) or -inf (delta_E > 0) and the test is false; with
\* T < 0 the exponent is >= 0, exp(..) >= 1 and the test is true; with T > 0,
\* exp(0) = 1 makes it true and 0 < exp(-delta_E / T) < 1 leaves it to the draw
\* (delta_E / T stays between 1/8 and 40 in the explored calls, so exp neither
\* rounds to 1 nor underflows to 0).
\* variant: the comparison is np.random.rand() > np.exp(-delta_E / T)
MetropolisOutcomes_inverted(d, t) ==
    IF t = 0 THEN {FALSE}
    ELSE IF t < 0 THEN {FALSE}
    ELSE IF d = 0 THEN {FALSE}
    ELSE {TRUE, FALSE}

MetropolisOutcomes(delta_E, t) ==
    IF t = 0 THEN {FALSE}
    ELSE IF t < 0 THEN {TRUE}
    ELSE IF delta_E = 0 THEN {TRUE}
    ELSE {TRUE, FALSE}

(***************************************************************************)
(* Section 3 of the source: decoding and scoring.                          *)
(***************************************************************************)
\* f"{subjects[i]}: {time}" is kept as the pair <<subjects[i], time>>
\* variant: the test of line 83 is best_spins[i] == -1
slot_label_inverted(s) == IF s = 0 - 1 THEN "shangwu" ELSE "xiawu"

slot_label(s) == IF s = 1 THEN "shangwu" ELSE "xiawu"

get_schedule(bs, subj) == [i \in 1..Len(subj) |-> <<subj[i], slot_label(bs[i])>>]

RECURSIVE conflicts_row(_, _, _, _)
conflicts_row(bs, Jm, i, j) ==
    IF j > Len(bs) THEN 0
    ELSE (IF Jm[i][j] = 0 - 1 /\ bs[i] = bs[j] THEN 1 ELSE 0)
         + conflicts_row(bs, Jm, i, j + 1)

RECURSIVE conflicts_rows(_, _, _)
conflicts_rows(bs, Jm, i) ==
    IF i > Len(bs) THEN 0
    ELSE conflicts_row(bs, Jm, i, i + 1) + conflicts_rows(bs, Jm, i + 1)

\* variant: "or" in place of "and" in the test of line 92
RECURSIVE conflicts_row_or(_, _, _, _)
conflicts_row_or(bs, Jm, i, j) ==
    IF j > Len(bs) THEN 0
    ELSE (IF Jm[i][j] = 0 - 1 \/ bs[i] = bs[j] THEN 1 ELSE 0)
         + conflicts_row_or(bs, Jm, i, j + 1)

RECURSIVE conflicts_rows_or(_, _, _)
conflicts_rows_or(bs, Jm, i) ==
    IF i > Len(bs) THEN 0
    ELSE conflicts_row_or(bs, Jm, i, i + 1) + conflicts_rows_or(bs, Jm, i + 1)

count_conflicts_or(bs, Jm) == conflicts_rows_or(bs, Jm, 1)

\* variant: the inner loop runs over every j, counting ordered pairs
RECURSIVE conflicts_rows_all_pairs(_, _, _)
conflicts_rows_all_pairs(bs, Jm, i) ==
    IF i > Len(bs) THEN 0
    ELSE conflicts_row(bs, Jm, i, 1) + conflicts_rows_all_pairs(bs, Jm, i + 1)

count_conflicts_all_pairs(bs, Jm) == conflicts_rows_all_pairs(bs, Jm, 1)

\* variant: the weight test of line 92 is J[i][j] == 1
RECURSIVE conflicts_row_plus(_, _, _, _)
conflicts_row_plus(bs, Jm, i, j) ==
    IF j > Len(bs) THEN 0
    ELSE (IF Jm[i][j] = 1 /\ bs[i] = bs[j] THEN 1 ELSE 0)
         + conflicts_row_plus(bs, Jm, i, j + 1)

RECURSIVE conflicts_rows_plus(_, _, _)
conflicts_rows_plus(bs, Jm, i) ==
    IF i > Len(bs) THEN 0
    ELSE conflicts_row_plus(bs, Jm, i, i + 1) + conflicts_rows_plus(bs, Jm, i + 1)

count_conflicts_plus(bs, Jm) == conflicts_rows_plus(bs, Jm, 1)

count_conflicts(bs, Jm) == conflicts_rows(bs, Jm, 1)

(***************************************************************************)
(* simulate_annealing.  The initial state is the call after lines 46-49;   *)
(* each action below is one whole pass through the loop body (flip,        *)
(* energy, acceptance, cooling, history, break), one per acceptance branch.*)
(***************************************************************************)
\* lines 46-49 for a call with the given arguments
Entered(problem, temp, mi, s0) ==
    /\ J = problem.J
    /\ subjects = problem.subjects
    /\ spins = s0
    /\ spins_at_call = s0
    /\ T0 = temp.T0
    /\ T_min = temp.T_min
    /\ cool_rate = temp.cool_rate
    /\ max_iter = mi
    /\ T = temp.T0
    /\ it = 0
    /\ best_spins = s0
    /\ best_energy = calculate_energy(s0, problem.J)
    /\ energy_history = <<calculate_energy(s0, problem.J)>>
    /\ pc = "loop"
    /\ schedule = <<>>
    /\ conflict_count = 0 - 1

\* variant: lines 73-74 (if T < T_min: break) are missing
CoolAndRecord_no_break(e) ==
    /\ T' = Cooled(T, cool_rate)
    /\ energy_history' = Append(energy_history, e)
    /\ it' = it + 1
    /\ pc' = "loop"

\* lines 71-74, with the best energy the branch leaves behind
CoolAndRecord(e) ==
    /\ T' = Cooled(T, cool_rate)
    /\ energy_history' = Append(energy_history, e)
    /\ it' = it + 1
    /\ pc' = IF Cooled(T, cool_rate) < T_min THEN "returned" ELSE "loop"

\* line 51, for _ in range(max_iter): another iteration starts
InLoop_inclusive == pc = "loop" /\ it <= max_iter

InLoop == pc = "loop" /\ it < max_iter

\* lines 53-56: the energy of the flipped array against best_energy
delta_E(idx) == calculate_energy(Flip(spins, idx), J) - best_energy

\* lines 59-61: delta_E < 0
AcceptLower(idx) ==
    /\ InLoop
    /\ delta_E(idx) < 0
    /\ spins' = Flip(spins, idx)
    /\ best_energy' = calculate_energy(Flip(spins, idx), J)
    /\ best_spins' = Flip(spins, idx)
    /\ CoolAndRecord(calculate_energy(Flip(spins, idx), J))
    /\ UNCHANGED <<params, schedule, conflict_count>>

\* lines 62-66: delta_E >= 0 and the draw is below exp(-delta_E / T)
AcceptMetropolis(idx) ==
    /\ InLoop
    /\ delta_E(idx) >= 0
    /\ TRUE \in MetropolisOutcomes(delta_E(idx), T)
    /\ spins' = Flip(spins, idx)
    /\ best_energy' = calculate_energy(Flip(spins, idx), J)
    /\ best_spins' = Flip(spins, idx)
    /\ CoolAndRecord(calculate_energy(Flip(spins, idx), J))
    /\ UNCHANGED <<params, schedule, conflict_count>>

\* variant: line 68 (spins[idx] *= -1, the restore) is missing
RejectMetropolis_no_restore(idx) ==
    /\ InLoop
    /\ delta_E(idx) >= 0
    /\ FALSE \in MetropolisOutcomes(delta_E(idx), T)
    /\ spins' = Flip(spins, idx)
    /\ CoolAndRecord(best_energy)
    /\ UNCHANGED <<params, best_spins, best_energy, schedule, conflict_count>>

\* variant: the append of line 72 sits inside the accepting branches, so a
\* rejected iteration records nothing
RejectMetropolis_no_record(idx) ==
    /\ InLoop
    /\ delta_E(idx) >= 0
    /\ FALSE \in MetropolisOutcomes(delta_E(idx), T)
    /\ spins' = Flip(Flip(spins, idx), idx)
    /\ T' = Cooled(T, cool_rate)
    /\ it' = it + 1
    /\ pc' = IF Cooled(T, cool_rate) < T_min THEN "returned" ELSE "loop"
    /\ UNCHANGED <<params, best_spins, best_energy, energy_history, schedule,
                   conflict_count>>

\* lines 62-64, 67-68: delta_E >= 0 and the draw is not below exp(-delta_E / T)
RejectMetropolis(idx) ==
    /\ InLoop
    /\ delta_E(idx) >= 0
    /\ FALSE \in MetropolisOutcomes(delta_E(idx), T)
    /\ spins' = Flip(Flip(spins, idx), idx)
    /\ CoolAndRecord(best_energy)
    /\ UNCHANGED <<params, best_spins, best_energy, schedule, conflict_count>>

\* line 51: range(max_iter) is exhausted; line 76
LoopExhausted ==
    /\ pc = "loop" /\ ~InLoop
    /\ pc' = "returned"
    /\ UNCHANGED <<params, spins, T, it, best_spins, best_energy, energy_history,
                   schedule, conflict_count>>

\* lines 101-102 of the main block
Report ==
    /\ pc = "returned"
    /\ schedule' = get_schedule(best_spins, subjects)
    /\ conflict_count' = count_conflicts(best_spins, J)
    /\ pc' = "reported"
    /\ UNCHANGED <<params, spins, T, it, best_spins, best_energy, energy_history>>

\* np.random.randint(0, len(spins))
IndexDraws == 1..Len(spins)

Next ==
    \/ \E idx \in IndexDraws : AcceptLower(idx)
    \/ \E idx \in IndexDraws : AcceptMetropolis(idx)
    \/ \E idx \in IndexDraws : RejectMetropolis(idx)
    \/ LoopExhausted
    \/ Report

(***************************************************************************)
(* Spec: every call on the configured 5-subject problem and on the two     *)
(* small problems of the specification's scenarios, from every initial     *)
(* assignment, with the configured and a fast-cooling parameter set, with  *)
(* parameter sets outside the documented domain, and max_iter up to        *)
(* MaxIter.                                                                *)
(***************************************************************************)
ProgramProblem == [J |-> Negated(conflict_matrix), subjects |-> program_subjects]

\* 2 items, conflicts = [[0,1],[1,0]]
TwoItemProblem ==
    [J |-> Negated(<< <<0, 1>>, <<1, 0>> >>), subjects |-> <<"a", "b">>]

\* 3 items, no conflicts
ThreeFreeProblem ==
    [J |-> Negated(<< <<0, 0, 0>>, <<0, 0, 0>>, <<0, 0, 0>> >>),
     subjects |-> <<"a", "b", "c">>]

Problems == {ProgramProblem, TwoItemProblem, ThreeFreeProblem}

\* T0 = 1.0, T_min = 0.3, cool_rate = 0.5: T < T_min after the second iteration
QuickParams == [T0 |-> Scale, T_min |-> (3 * Scale) \div 10, cool_rate |-> <<1, 2>>]

ValidParams == {ProgramParams, QuickParams}

\* parameter sets outside 0 < T_min < T0, 0 < cool_rate < 1
InvalidParams ==
    { [T0 |-> 0, T_min |-> Scale \div 10, cool_rate |-> <<9, 10>>],
      [T0 |-> 0 - Scale, T_min |-> Scale \div 10, cool_rate |-> <<9, 10>>],
      [T0 |-> Scale, T_min |-> 2 * Scale, cool_rate |-> <<1, 2>>],
      [T0 |-> Scale, T_min |-> 0, cool_rate |-> <<1, 2>>],
      [T0 |-> Scale, T_min |-> Scale \div 10, cool_rate |-> <<3, 2>>] }

Init ==
    \E problem \in Problems, temp \in ValidParams \cup InvalidParams,
       mi \in (0 - 1)..MaxIter :
        \E s0 \in SpinStates(Len(problem.J)) : Entered(problem, temp, mi, s0)

Spec == Init /\ [][Next]_vars

(***************************************************************************)
(* SpecEnergy: calls on every weight matrix over {-1, 0, 1} of up to MaxN  *)
(* items whose lower triangle either mirrors the upper one or is zero,     *)
(* from every assignment, running at most one iteration.                   *)
(***************************************************************************)
Weights == {0 - 1, 0, 1}

ItemPairs(n) == {p \in (1..n) \X (1..n) : p[1] < p[2]}

WeightMatrix(n, upper, mirrored) ==
    [i \in 1..n |-> [j \in 1..n |->
        IF i < j THEN upper[<<i, j>>]
        ELSE IF i > j /\ mirrored THEN upper[<<j, i>>]
        ELSE 0]]

ItemNames(n) == [i \in 1..n |-> <<"a", "b", "c", "d", "e">>[i]]

InitEnergy ==
    \E n \in 1..MaxN, mirrored \in BOOLEAN, mi \in {0, 1} :
        \E upper \in [ItemPairs(n) -> Weights], s0 \in SpinStates(n) :
            Entered([J |-> WeightMatrix(n, upper, mirrored), subjects |-> ItemNames(n)],
                    ProgramParams, mi, s0)

SpecEnergy == InitEnergy /\ [][Next]_vars

(***************************************************************************)
(* SpecSeeded: calls with the configured problem and parameters            *)
(* (max_iter = 500, and max_iter = MaxIter) from every initial assignment, *)
(* for the random streams whose index draws after the first FreeDraws      *)
(* iterations all fall on item 0.  Every behaviour of SpecSeeded is a run  *)
(* of the program.                                                         *)
(***************************************************************************)
SeededIndexDraws == IF it < FreeDraws THEN IndexDraws ELSE {1}

NextSeeded ==
    \/ \E idx \in SeededIndexDraws : AcceptLower(idx)
    \/ \E idx \in SeededIndexDraws : AcceptMetropolis(idx)
    \/ \E idx \in SeededIndexDraws : RejectMetropolis(idx)
    \/ LoopExhausted
    \/ Report

InitSeeded ==
    \E s0 \in SpinStates(Len(conflict_matrix)) :
        \E mi \in {MaxIter, Program_max_iter} :
            Entered(ProgramProblem, ProgramParams, mi, s0)

SpecSeeded == InitSeeded /\ [][NextSeeded]_vars

(***************************************************************************)
(* SpecLong: seeded runs of LongRun iterations on the configured problem,  *)
(* with the configured parameters, with the fast-cooling parameters, and   *)
(* with T_min = 0.0, which never stops the loop.                           *)
(***************************************************************************)
\* T0 = 1.0, T_min = 0.0, cool_rate = 0.5
UnstoppedParams == [T0 |-> Scale, T_min |-> 0, cool_rate |-> <<1, 2>>]

InitLong ==
    \E s0 \in SpinStates(Len(conflict_matrix)) :
        \E temp \in {ProgramParams, QuickParams, UnstoppedParams} :
            Entered(ProgramProblem, temp, LongRun, s0)

SpecLong == InitLong /\ [][NextSeeded]_vars

(***************************************************************************)
(* Vocabulary of the properties.                                           *)
(***************************************************************************)
\* the parameters lie in the documented domain of simulate_annealing
ValidCall ==
    /\ T0 > 0
    /\ 0 < T_min /\ T_min < T0
    /\ 0 < cool_rate[1] /\ cool_rate[1] < cool_rate[2]
    /\ max_iter >= 0

Returned == pc \in {"returned", "reported"}

\* Jm is -conflicts for a symmetric zero-diagonal conflict relation
IsConflictWeights(Jm) ==
    \A i, j \in 1..Len(Jm) :
        /\ Jm[i][j] \in {0 - 1, 0}
        /\ Jm[i][j] = Jm[j][i]
        /\ Jm[i][i] = 0

ConflictPairs(Jm) == {p \in ItemPairs(Len(Jm)) : Jm[p[1]][p[2]] = 0 - 1}

SameSlotConflicts(s, Jm) == {p \in ConflictPairs(Jm) : s[p[1]] = s[p[2]]}

SplitConflicts(s, Jm) == {p \in ConflictPairs(Jm) : s[p[1]] # s[p[2]]}

GlobalFlip(s) == [i \in 1..Len(s) |-> 0 - s[i]]

NonIncreasing(h) == \A i \in 2..Len(h) : h[i] <= h[i - 1]

(***************************************************************************)
(* C1: in every run of simulate_annealing with valid parameters the        *)
(* returned energy history is non-increasing: each entry is <= the entry   *)
(* before it.                                                              *)
(***************************************************************************)
C1_HistoryNonIncreasing == (ValidCall /\ Returned) => NonIncreasing(energy_history)

(***************************************************************************)
(* C2: the returned best_energy is <= the energy of the initial state and  *)
(* of every state the working array held at the end of an iteration (the   *)
(* entries of energy_history), and best_state has that energy.             *)
(***************************************************************************)
C2_ReturnsBestFound ==
    (ValidCall /\ Returned) =>
        /\ \A i \in 1..Len(energy_history) : best_energy <= energy_history[i]
        /\ calculate_energy(best_spins, J) = best_energy

\* the history entry written by an iteration is the energy of the working
\* array at the end of that iteration
HistoryTracksWorkingArray ==
    energy_history[Len(energy_history)] = calculate_energy(spins, J)

(***************************************************************************)
(* C3: with max_iter = 0 simulate_annealing returns a state equal to the   *)
(* input state, the input state's energy, and a history holding exactly    *)
(* that energy, and leaves the input array as it was.                      *)
(***************************************************************************)
C3_ZeroIterations ==
    (max_iter = 0 /\ Returned) =>
        /\ best_spins = spins_at_call
        /\ best_energy = calculate_energy(spins_at_call, J)
        /\ energy_history = <<calculate_energy(spins_at_call, J)>>
        /\ spins = spins_at_call
        /\ it = 0

C3_Witness == max_iter = 0 /\ pc = "reported" /\ Len(spins) = 5 /\ best_energy = 3

(***************************************************************************)
(* C4: for 2 items with conflicts [[0,1],[1,0]], valid parameters and      *)
(* max_iter >= 1, the run returns the optimum: state[0] != state[1],       *)
(* energy -1, and count_conflicts of the returned state is 0.              *)
(***************************************************************************)
C4_TwoItemOptimumReturned ==
    (J = TwoItemProblem.J /\ ValidCall /\ max_iter >= 1 /\ pc = "reported") =>
        /\ best_spins[1] # best_spins[2]
        /\ best_energy = 0 - 1
        /\ conflict_count = 0

\* the part of C4 that the code does satisfy: the working array is at the
\* optimum at the call or after the first iteration's flip
C4_OptimumVisited ==
    (J = TwoItemProblem.J /\ it >= 1) =>
        \/ spins_at_call[1] # spins_at_call[2]
        \/ energy_history[2] = 0 - 1

(***************************************************************************)
(* C5: for the configured 5-subject matrix with T0 = 8.0, T_min = 0.1,     *)
(* cool_rate = 0.9 and max_iter >= 500, every run returns a state on which *)
(* count_conflicts is 0.                                                   *)
(***************************************************************************)
ConfiguredCall ==
    /\ J = ProgramProblem.J
    /\ <<T0, T_min, cool_rate>> =
           <<ProgramParams.T0, ProgramParams.T_min, ProgramParams.cool_rate>>
    /\ max_iter >= Program_max_iter

C6_NoConflictsAtAll ==
    (J = ThreeFreeProblem.J) =>
        /\ \A s \in SpinStates(3) :
              calculate_energy(s, J) = 0 /\ count_conflicts(s, J) = 0
        /\ best_energy = 0
        /\ \A i \in 1..Len(energy_history) : energy_history[i] = 0
        /\ pc = "reported" => conflict_count = 0

C6_Witness ==
    /\ J = ThreeFreeProblem.J /\ pc = "reported"
    /\ Len(energy_history) = 4
    /\ best_spins # spins_at_call

(***************************************************************************)
(* C7: a call with parameters outside the documented domain (T0 <= 0,      *)
(* T_min <= 0, T_min >= T0, cool_rate outside (0,1), negative max_iter)    *)
(* ends in a configuration error before any iteration: it never returns a  *)
(* result, no iteration runs and the input array is unchanged.             *)
(***************************************************************************)
C7_InvalidCallRejected ==
    ~ValidCall => (~Returned /\ it = 0 /\ spins = spins_at_call)

(***************************************************************************)
(* C8: for a symmetric zero-diagonal conflict relation with J = -conflicts *)
(* the energy of a state is the number of conflicting pairs sharing a slot *)
(* minus the number of conflicting pairs in different slots, that is       *)
(* 2 * count_conflicts - (number of conflicting pairs); so of two states   *)
(* the one with lower energy is the one with fewer same-slot conflicts.    *)
(***************************************************************************)
C8_EnergyCountsConflicts ==
    IsConflictWeights(J) =>
        /\ \A s \in {spins, spins_at_call} :
              /\ calculate_energy(s, J) =
                     Cardinality(SameSlotConflicts(s, J)) - Cardinality(SplitConflicts(s, J))
              /\ calculate_energy(s, J) =
                     2 * count_conflicts(s, J) - Cardinality(ConflictPairs(J))
        /\ (calculate_energy(spins, J) < calculate_energy(spins_at_call, J))
              <=> (count_conflicts(spins, J) < count_conflicts(spins_at_call, J))
        /\ pc = "reported" =>
              best_energy = 2 * conflict_count - Cardinality(ConflictPairs(J))

C8_Witness ==
    /\ IsConflictWeights(J) /\ pc = "reported"
    /\ Cardinality(ConflictPairs(J)) = 3
    /\ count_conflicts(spins_at_call, J) = 3
    /\ conflict_count = 1
    /\ best_energy = 0 - 1

(***************************************************************************)
(* C9: count_conflicts returns an integer c with 0 <= c <= the number of   *)
(* conflicting pairs of the relation, and c is the number of pairs i < j   *)
(* that conflict and have state[i] = state[j].                             *)
(***************************************************************************)
C9_ConflictCountRange ==
    (IsConflictWeights(J) /\ pc = "reported") =>
        /\ conflict_count \in 0..Cardinality(ConflictPairs(J))
        /\ conflict_count = Cardinality(SameSlotConflicts(best_spins, J))

C9_Witness ==
    /\ IsConflictWeights(J) /\ pc = "reported"
    /\ Cardinality(ConflictPairs(J)) = 2
    /\ conflict_count = 1

(***************************************************************************)
(* C10: calculate_energy(s, J) = calculate_energy(-s, J) for every state s *)
(* and every weight matrix J.                                              *)
(***************************************************************************)
C10_GlobalFlipSymmetry ==
    /\ calculate_energy(GlobalFlip(spins), J) = calculate_energy(spins, J)
    /\ calculate_energy(GlobalFlip(best_spins), J) = best_energy

C10_Witness ==
    /\ \E i, j \in 1..Len(J) : J[i][j] # J[j][i]
    /\ \E i, j \in 1..Len(J) : J[i][j] = 1
    /\ it = 1
    /\ best_energy = 0 - 2
    /\ GlobalFlip(best_spins) # best_spins

(***************************************************************************)
(* C11: for a symmetric weight matrix J and every permutation p of the     *)
(* items, the energy of the state relabelled by p under the matrix         *)
(* relabelled by p on rows and columns equals calculate_energy(s, J),      *)
(* although only the pairs i < j are summed.                               *)
(***************************************************************************)
IsSymmetric(Jm) == \A i, j \in 1..Len(Jm) : Jm[i][j] = Jm[j][i]

ItemPermutations(n) == Permutations(1..n)

RelabelledState(s, p) == [i \in 1..Len(s) |-> s[p[i]]]

RelabelledMatrix(Jm, p) == [i \in 1..Len(Jm) |-> [j \in 1..Len(Jm) |-> Jm[p[i]][p[j]]]]

C11_PermutationInvariance ==
    IsSymmetric(J) =>
        \A p \in ItemPermutations(Len(spins)) :
            /\ pc = "loop" =>
                  calculate_energy(RelabelledState(spins, p), RelabelledMatrix(J, p))
                    = calculate_energy(spins, J)
            /\ pc = "returned" =>
                  calculate_energy(RelabelledState(best_spins, p), RelabelledMatrix(J, p))
                    = best_energy

\* a symmetric matrix with three different weights, a state that a relabelling
\* changes, and a non-zero energy
C11_Witness ==
    /\ IsSymmetric(J) /\ Len(spins) = 3
    /\ {J[1][2], J[1][3], J[2][3]} = Weights
    /\ it = 1 /\ best_energy = 2
    /\ \E p \in ItemPermutations(3) : RelabelledState(best_spins, p) # best_spins

(***************************************************************************)
(* C12: simulate_annealing never modifies the caller's input state: after  *)
(* a run the array passed in still holds the initial assignment.           *)
(***************************************************************************)
C12_InputUntouched == (ValidCall /\ Returned) => spins = spins_at_call

(***************************************************************************)
(* C13: get_schedule returns one entry per item, in item order; entry i    *)
(* pairs item i's name with the slot-A label iff state[i] = +1 and with    *)
(* the slot-B label iff state[i] = -1; the call leaves the state as it     *)
(* was, and computing the schedule again from that state gives the same    *)
(* output.                                                                 *)
(***************************************************************************)
C13_ScheduleDecoding ==
    /\ [](pc = "reported" =>
            /\ Len(schedule) = Len(subjects)
            /\ \A i \in 1..Len(subjects) :
                  /\ schedule[i][1] = subjects[i]
                  /\ schedule[i][2] \in {"shangwu", "xiawu"}
                  /\ schedule[i][2] = "shangwu" <=> best_spins[i] = 1
                  /\ schedule[i][2] = "xiawu" <=> best_spins[i] = 0 - 1)
    /\ [][(pc = "returned" /\ pc' = "reported") =>
            /\ best_spins' = best_spins
            /\ spins' = spins
            /\ subjects' = subjects
            /\ get_schedule(best_spins', subjects') = schedule']_vars

C13_Witness ==
    /\ pc = "reported" /\ Len(schedule) = 5
    /\ schedule[1] = <<"yuwen", "xiawu">>
    /\ schedule[2] = <<"shuxue", "shangwu">>
    /\ it = 2

(***************************************************************************)
(* C14: under 0 < T_min < T0 and 0 < cool_rate < 1 every run terminates    *)
(* after exactly min(max_iter, kstar) iterations, kstar being the least    *)
(* k >= 1 with T0 * cool_rate^k < T_min; no iteration starts with          *)
(* T < T_min, and the loop stops at the end of the first iteration whose   *)
(* cooled temperature is below T_min.                                      *)
(***************************************************************************)
\* the least k >= 1 with t * rate^k < tmin, counting up from k
RECURSIVE FirstBelow(_, _, _, _)
FirstBelow(t, rate, tmin, k) ==
    IF Cooled(t, rate) < tmin THEN k ELSE FirstBelow(Cooled(t, rate), rate, tmin, k + 1)

KStar == FirstBelow(T0, cool_rate, T_min, 1)

Smaller(a, b) == IF a <= b THEN a ELSE b

C14_IterationCount ==
    ValidCall =>
        /\ it <= Smaller(max_iter, KStar)
        /\ Returned => it = Smaller(max_iter, KStar)
        /\ InLoop => T >= T_min
        /\ (Returned /\ it < max_iter) => (T < T_min /\ it = KStar)
        /\ pc = "reported" \/ ENABLED Next

\* a run that the temperature stops before max_iter is exhausted
C14_Witness ==
    /\ ValidCall /\ pc = "returned"
    /\ max_iter = 3 /\ it = 2 /\ T < T_min
    /\ Len(spins) = 5

(***************************************************************************)
(* C15: within a run with T0 > 0 and 0 < cool_rate < 1 the temperature     *)
(* starts at T0, is never increased, is multiplied by cool_rate exactly    *)
(* once per completed iteration, and is strictly positive wherever the     *)
(* acceptance probability exp(-delta_E / T) is evaluated.                  *)
(***************************************************************************)
CoolingCall == T0 > 0 /\ 0 < cool_rate[1] /\ cool_rate[1] < cool_rate[2]

\* tnew is told * rate, rounded down to the temperature unit
IsProduct(tnew, told, rate) ==
    /\ tnew * rate[2] <= told * rate[1]
    /\ told * rate[1] < (tnew + 1) * rate[2]

C16_HistoryAppendOnly ==
    /\ [](/\ Len(energy_history) = it + 1
          /\ energy_history[1] = calculate_energy(spins_at_call, J)
          /\ Returned => energy_history[Len(energy_history)] = best_energy)
    /\ [][/\ Len(energy_history') >= Len(energy_history)
          /\ \A i \in 1..Len(energy_history) : energy_history'[i] = energy_history[i]
          /\ it' = it + 1 => energy_history' = Append(energy_history, best_energy')
          /\ it' = it => energy_history' = energy_history]_vars

\* a returned history with a change, then a repeated entry, then a change
C16_Witness ==
    /\ pc = "returned" /\ Len(energy_history) = 4
    /\ energy_history[2] # energy_history[1]
    /\ energy_history[3] = energy_history[2]
    /\ energy_history[4] > energy_history[3]

(***************************************************************************)
(* C17: an iteration whose candidate is rejected restores the flipped      *)
(* label, so the working state is what it was before the iteration, and    *)
(* leaves best_state and best_energy unchanged; an iteration whose         *)
(* candidate is accepted makes best_state a copy of the candidate, which   *)
(* differs from the previous working state in exactly one position (the    *)
(* drawn index), and makes best_energy the candidate's energy.             *)
(***************************************************************************)
ChangedPositions(s, t) == {i \in 1..Len(s) : s[i] # t[i]}

C17_IterationFrame ==
    [][\A idx \in IndexDraws :
         /\ RejectMetropolis(idx) =>
               /\ spins' = spins
               /\ best_spins' = best_spins
               /\ best_energy' = best_energy
         /\ (AcceptLower(idx) \/ AcceptMetropolis(idx)) =>
               /\ best_spins' = spins'
               /\ ChangedPositions(spins, spins') = {idx}
               /\ best_energy' = calculate_energy(spins', J)]_vars

\* two items in conflict: a rejected iteration, then an accepted worsening one
C17_Witness ==
    /\ J = TwoItemProblem.J /\ ValidCall
    /\ energy_history = <<0 - 1, 0 - 1, 1>>
    /\ ChangedPositions(spins, spins_at_call) = {2}

(***************************************************************************)
(* C18: at the start of the loop and at the end of every iteration the     *)
(* working state equals best_state element-wise and best_energy is         *)
(* calculate_energy(best_state, J); so delta_E compares the candidate with *)
(* the energy of the current working state, and the returned energy is the *)
(* energy of the returned state.  best_state is a copy: a flip of the      *)
(* working state that is then rejected leaves it as recorded.              *)
(***************************************************************************)
C18_BestIsWorkingState ==
    /\ [](/\ spins = best_spins
          /\ best_energy = calculate_energy(best_spins, J)
          /\ \A idx \in IndexDraws :
                delta_E(idx) = calculate_energy(Flip(spins, idx), J)
                                 - calculate_energy(spins, J))
    /\ [][\A idx \in IndexDraws : RejectMetropolis(idx) => best_spins' = best_spins]_vars

\* the configured problem taken from 3 conflicts to none in three iterations
C18_Witness ==
    /\ J = ProgramProblem.J /\ ValidCall
    /\ pc = "loop" /\ it = 3
    /\ energy_history[1] = 3 /\ best_energy = 0 - 3
    /\ best_spins # spins_at_call

(***************************************************************************)
(* C19: in an iteration with T > 0 a candidate with delta_E <= 0 is always *)
(* accepted, whatever the uniform draw (exp(0) = 1 exceeds every draw in   *)
(* [0,1)); a candidate is rejected only if delta_E > 0; and a candidate    *)
(* with delta_E > 0 can be accepted, best_energy then rising by delta_E.   *)
(***************************************************************************)
C19_AcceptanceRule ==
    /\ []((InLoop /\ T > 0) =>
            \A idx \in IndexDraws :
                delta_E(idx) <= 0 =>
                    /\ ~ENABLED RejectMetropolis(idx)
                    /\ ENABLED (AcceptLower(idx) \/ AcceptMetropolis(idx)))
    /\ [][T > 0 =>
            \A idx \in IndexDraws :
                /\ RejectMetropolis(idx) => delta_E(idx) > 0
                /\ (AcceptMetropolis(idx) /\ delta_E(idx) > 0) =>
                      /\ best_energy' = best_energy + delta_E(idx)
                      /\ best_energy' > best_energy
                      /\ best_spins' = Flip(spins, idx)]_vars

\* a worsening candidate was accepted at a positive temperature, after a
\* zero-delta candidate had been accepted
C19_Witness ==
    /\ ValidCall /\ J = ProgramProblem.J
    /\ it = 2
    /\ energy_history[2] = energy_history[1]
    /\ energy_history[3] = energy_history[2] + 4
    /\ best_energy = energy_history[3]
    /\ ChangedPositions(spins, spins_at_call) = {1, 2}

====
